---- MODULE Spec2Model ----
(***************************************************************************)
(* A model of client/client.go of go-remote-config: the Client that owns  *)
(* a Repository (the backend), refreshes it once synchronously at          *)
(* construction and then periodically from a background goroutine, and the *)
(* typed accessors that read the backend's snapshot.                       *)
(*                                                                         *)
(* Every NewClient call of the model gets a backend of its own, so a       *)
(* client and its backend share one index.  Callers are threads; the      *)
(* refresh goroutine of a client is a process of its own.                  *)
(***************************************************************************)
EXTENDS Integers, Sequences, FiniteSets, TLC

\* ------------------------------------------------------------------ bounds

\* NewClient calls (and backends) of one run.
MaxClients == 2
\* Refresh invocations counted per backend; the counter stays at this value
\* once it reaches it (it observes the run, it does not stop it).
MaxRefresh == 2

Clients == 1..MaxClients
Threads == {"t1", "t2"}

\* ------------------------------------------------------------------ values

\* A loosely-typed configuration value (Go's interface{} as the YAML/JSON
\* decoders produce it): t is the dynamic type, s the text of a string, n and
\* f the whole part and the tenths of a number, elems the elements of a
\* sequence.  Every value has every field, so any two values compare.
Val(t, s, n, f, elems) == [t |-> t, s |-> s, n |-> n, f |-> f, elems |-> elems]
VStr(s) == Val("string", s, 0, 0, <<>>)
VInt(n) == Val("int", "", n, 0, <<>>)
VFloat(n, f) == Val("float64", "", n, f, <<>>)
VBool(b) == Val("bool", IF b THEN "true" ELSE "false", 0, 0, <<>>)
VList(elems) == Val("[]interface{}", "", 0, 0, elems)
VStrings(elems) == Val("[]string", "", 0, 0, elems)
Nil == Val("nil", "", 0, 0, <<>>)

\* The errors of client.go, by their text; NoErr is Go's nil error.
NoErr == "nil"
ErrClosed == "client is closed"
ErrNotFound == "config not found"
ErrNotArray == "config is not an array of strings"
ErrNotString == "config is not a string"
ErrNotInt == "config is not an int64"
ErrYaml == "yaml: unmarshal errors"
ErrRefresh == "refresh failed"
NilDeref == "panic: nil pointer dereference"

\* ------------------------------------------------------------------ documents

\* The documents a backend's source can hold.  d2 is d1 after an edit: name
\* and port changed (port to another type), rate removed, tags changed.
DocIds == {"d1", "d2"}
NoDoc == "none"

Doc1 ==
    "name" :> VStr("v1") @@ "port" :> VInt(7) @@ "rate" :> VFloat(2, 5)
    @@ "whole" :> VFloat(3, 0) @@ "debug" :> VBool(TRUE) @@ "digits" :> VStr("7")
    @@ "tags" :> VList(<<VStr("a"), VStr("b")>>)
    @@ "mixed" :> VList(<<VStr("a"), VStr("b"), VInt(3)>>)
    @@ "head" :> VList(<<VInt(3), VStr("a")>>)
    @@ "mid" :> VList(<<VStr("a"), VFloat(3, 0), VStr("b")>>)
    @@ "empty" :> VList(<<>>)

Doc2 ==
    "name" :> VStr("v2") @@ "port" :> VStr("7") @@ "whole" :> VInt(3)
    @@ "debug" :> VBool(FALSE) @@ "digits" :> VInt(7)
    @@ "tags" :> VList(<<VStr("c")>>)
    @@ "mixed" :> VList(<<VStr("a"), VBool(TRUE), VStr("b")>>)
    @@ "head" :> VStr("a")
    @@ "empty" :> VList(<<>>)

EmptyDoc == [k \in {} |-> Nil]

\* The snapshot a document id stands for; NoDoc is a backend never refreshed.
DocOf(d) == IF d = "d1" THEN Doc1 ELSE IF d = "d2" THEN Doc2 ELSE EmptyDoc

\* The keys callers ask for: every key of a document and one in none.
Keys == (DOMAIN Doc1) \cup (DOMAIN Doc2) \cup {"missing"}

\* ------------------------------------------------------------------ backend

\* Repository.GetData: the value the snapshot holds for name, and whether it
\* holds one.
GetData(snap, name) ==
    IF name \in DOMAIN snap
    THEN [config |-> snap[name], ok |-> TRUE]
    ELSE [config |-> Nil, ok |-> FALSE]

\* Repository.Refresh: the snapshot after the call.  A successful call
\* replaces the snapshot by the source's document, a failed one leaves it.
RefreshedSnapshot(snap, src, ok) == IF ok THEN src ELSE snap

\* The error a Refresh call returns.
RefreshError(ok) == IF ok THEN NoErr ELSE ErrRefresh

\* ------------------------------------------------------------------ accessors

\* What an accessor hands back: the returned value and the error.
Ret(val, err) == [val |-> val, err |-> err]

\* Client.GetConfigString.
ClientGetConfigString(isClosed, snap, name, defaultValue) ==
    IF isClosed THEN Ret(defaultValue, ErrClosed)
    ELSE LET got == GetData(snap, name) IN
         IF ~got.ok THEN Ret(defaultValue, ErrNotFound)
         ELSE IF got.config.t # "string" THEN Ret(defaultValue, ErrNotString)
         ELSE Ret(got.config, NoErr)

\* Client.GetConfigInt as it would be if it converted a float with no
\* fraction instead of asking for the exact type.
ClientGetConfigIntConverting(isClosed, snap, name, defaultValue) ==
    IF isClosed THEN Ret(defaultValue, ErrClosed)
    ELSE LET got == GetData(snap, name) IN
         IF ~got.ok THEN Ret(defaultValue, ErrNotFound)
         ELSE IF got.config.t = "float64" /\ got.config.f = 0
              THEN Ret(VInt(got.config.n), NoErr)
         ELSE IF got.config.t # "int" THEN Ret(defaultValue, ErrNotInt)
         ELSE Ret(got.config, NoErr)

\* Client.GetConfigInt.
ClientGetConfigInt(isClosed, snap, name, defaultValue) ==
    IF isClosed THEN Ret(defaultValue, ErrClosed)
    ELSE LET got == GetData(snap, name) IN
         IF ~got.ok THEN Ret(defaultValue, ErrNotFound)
         ELSE IF got.config.t # "int" THEN Ret(defaultValue, ErrNotInt)
         ELSE Ret(got.config, NoErr)

\* Client.GetConfigFloat (its mismatch error reuses the int accessor's text).
ClientGetConfigFloat(isClosed, snap, name, defaultValue) ==
    IF isClosed THEN Ret(defaultValue, ErrClosed)
    ELSE LET got == GetData(snap, name) IN
         IF ~got.ok THEN Ret(defaultValue, ErrNotFound)
         ELSE IF got.config.t # "float64" THEN Ret(defaultValue, ErrNotInt)
         ELSE Ret(got.config, NoErr)

\* The loop of Client.GetConfigArrayOfStrings from element i on: output grows
\* by one string per element, and the first element that is no string ends
\* the loop with ok false.
RECURSIVE AppendStrings(_, _, _)
AppendStrings(configArray, i, output) ==
    IF i > Len(configArray) THEN [ok |-> TRUE, output |-> output]
    ELSE IF configArray[i].t # "string" THEN [ok |-> FALSE, output |-> output]
    ELSE AppendStrings(configArray, i + 1, Append(output, configArray[i]))

\* Client.GetConfigArrayOfStrings as it would be if the loop's early return
\* handed back the strings converted so far.
ClientGetConfigArrayOfStringsReturningPrefix(isClosed, snap, name, defaultValue) ==
    IF isClosed THEN Ret(defaultValue, ErrClosed)
    ELSE LET got == GetData(snap, name) IN
         IF ~got.ok THEN Ret(defaultValue, ErrNotFound)
         ELSE IF got.config.t # "[]interface{}" THEN Ret(defaultValue, ErrNotArray)
         ELSE LET loop == AppendStrings(got.config.elems, 1, <<>>) IN
              IF ~loop.ok THEN Ret(VStrings(loop.output), ErrNotArray)
              ELSE Ret(VStrings(loop.output), NoErr)

\* Client.GetConfigArrayOfStrings.
ClientGetConfigArrayOfStrings(isClosed, snap, name, defaultValue) ==
    IF isClosed THEN Ret(defaultValue, ErrClosed)
    ELSE LET got == GetData(snap, name) IN
         IF ~got.ok THEN Ret(defaultValue, ErrNotFound)
         ELSE IF got.config.t # "[]interface{}" THEN Ret(defaultValue, ErrNotArray)
         ELSE LET loop == AppendStrings(got.config.elems, 1, <<>>) IN
              IF ~loop.ok THEN Ret(defaultValue, ErrNotArray)
              ELSE Ret(VStrings(loop.output), NoErr)

\* The caller's destination of the structured accessor: a pointer to a Go
\* variable of type ty that holds v.
Dest(ty, v) == [ty |-> ty, v |-> v]
NoDest == Dest("none", Nil)

\* The decimal text of the small numbers the documents use.
Digits(n) == <<"0", "1", "2", "3", "4", "5", "6", "7", "8", "9">>[n + 1]

\* yaml.Marshal of a value, as the node its text parses back to: a string
\* stays a string (one that looks like a number is quoted), and a float with
\* no fraction is written without a point, so it reads back as an integer.
RECURSIVE YamlMarshal(_)
YamlMarshal(config) ==
    CASE config.t = "float64" /\ config.f = 0 -> VInt(config.n)
      [] config.t = "[]interface{}" ->
            VList([i \in 1..Len(config.elems) |-> YamlMarshal(config.elems[i])])
      [] OTHER -> config

\* The text of a scalar node.
ScalarText(node) ==
    CASE node.t = "string" -> node.s
      [] node.t = "bool" -> node.s
      [] node.t = "int" -> Digits(node.n)
      [] OTHER -> Digits(node.n) \o "." \o Digits(node.f)

\* yaml.Unmarshal of a node into the destination: the destination after the
\* call and whether decoding succeeded.  A string variable takes the text of
\* any scalar, an int variable an integer, a float variable any number; a
\* sequence fits none of them.  A failed decode leaves the variable as it was.
YamlUnmarshal(node, data) ==
    CASE node.t \in {"[]interface{}", "nil"} -> [data |-> data, ok |-> FALSE]
      [] data.ty = "*string" ->
            [data |-> Dest(data.ty, VStr(ScalarText(node))), ok |-> TRUE]
      [] data.ty = "*int" /\ node.t = "int" ->
            [data |-> Dest(data.ty, node), ok |-> TRUE]
      [] data.ty = "*float64" /\ node.t \in {"int", "float64"} ->
            [data |-> Dest(data.ty, VFloat(node.n, node.f)), ok |-> TRUE]
      [] OTHER -> [data |-> data, ok |-> FALSE]

\* Client.GetConfig as it would be if the failing paths stored defaultValue
\* through the pointer (*data = defaultValue) instead of rebinding the
\* parameter.
ClientGetConfigStoringDefault(isClosed, snap, name, data, defaultValue) ==
    IF isClosed THEN [data |-> Dest(data.ty, defaultValue), err |-> ErrClosed]
    ELSE LET got == GetData(snap, name) IN
         IF ~got.ok THEN [data |-> Dest(data.ty, defaultValue), err |-> ErrNotFound]
         ELSE LET decoded == YamlUnmarshal(YamlMarshal(got.config), data) IN
              IF ~decoded.ok THEN [data |-> Dest(data.ty, defaultValue), err |-> ErrYaml]
              ELSE [data |-> decoded.data, err |-> NoErr]

\* Client.GetConfig: the caller's destination after the call and the error.
\* On the failing paths the code assigns defaultValue to its parameter data,
\* a local of the method: the caller's destination keeps what it held.
ClientGetConfig(isClosed, snap, name, data, defaultValue) ==
    IF isClosed THEN [data |-> data, err |-> ErrClosed]
    ELSE LET got == GetData(snap, name) IN
         IF ~got.ok THEN [data |-> data, err |-> ErrNotFound]
         ELSE LET decoded == YamlUnmarshal(YamlMarshal(got.config), data) IN
              IF ~decoded.ok THEN [data |-> data, err |-> ErrYaml]
              ELSE [data |-> decoded.data, err |-> NoErr]

\* The accessors by name, and the default and the destinations callers pass.
Ops == {"GetConfig", "GetConfigString", "GetConfigInt", "GetConfigFloat",
        "GetConfigArrayOfStrings"}

DefaultOf(op) ==
    CASE op = "GetConfigInt" -> VInt(9)
      [] op = "GetConfigFloat" -> VFloat(9, 9)
      [] op = "GetConfigArrayOfStrings" -> VStrings(<<VStr("x")>>)
      [] OTHER -> VStr("dflt")

DestsOf(op) ==
    IF op = "GetConfig"
    THEN {Dest("*string", VStr("old")), Dest("*int", VInt(1)),
          Dest("*float64", VFloat(1, 5))}
    ELSE {NoDest}

\* One accessor call: the value returned, the error, and the caller's
\* destination after the call (GetConfig returns no value, the others have
\* no destination).
Call(op, isClosed, snap, name, data, defaultValue) ==
    IF op = "GetConfig"
    THEN LET r == ClientGetConfig(isClosed, snap, name, data, defaultValue) IN
         [val |-> Nil, err |-> r.err, data |-> r.data]
    ELSE LET r == CASE op = "GetConfigString" ->
                        ClientGetConfigString(isClosed, snap, name, defaultValue)
                    [] op = "GetConfigInt" ->
                        ClientGetConfigInt(isClosed, snap, name, defaultValue)
                    [] op = "GetConfigFloat" ->
                        ClientGetConfigFloat(isClosed, snap, name, defaultValue)
                    [] OTHER ->
                        ClientGetConfigArrayOfStrings(isClosed, snap, name, defaultValue)
         IN [val |-> r.val, err |-> r.err, data |-> data]

\* ------------------------------------------------------------------ state

VARIABLES
    defaultClient,  \* the package's defaultClient: a client, or 0 for nil
    phase,          \* per NewClient call: "none", "init" (inside the first
                    \* Refresh), "failed" (returned nil) or "live" (returned)
    isClosed,       \* Client.isClosed
    ctxDone,        \* whether the client's context is cancelled
    bg,             \* the refresh goroutine: "none", "start", "select",
                    \* "Refresh" (inside Repository.Refresh) or "exited"
    ticker,         \* the goroutine's time.Ticker: "none", "running", "stopped"
    tick,           \* whether ticker.C holds a tick
    source,         \* the document the backend's source holds
    snapshot,       \* the document the backend's snapshot holds
    refreshes,      \* Refresh invocations on the backend so far
    tasks,          \* refresh goroutines started for the client so far
    initErr,        \* the error of the first Refresh, "pending" before it
    closeReturned,  \* whether a Close call on the client has returned
    th,             \* per thread: the call it is in
    last,           \* what the last step returned to its caller, if anything
    panicked        \* whether the process died of a panic

vars == <<defaultClient, phase, isClosed, ctxDone, bg, ticker, tick, source,
          snapshot, refreshes, tasks, initErr, closeReturned, th, last, panicked>>

clientVars == <<phase, isClosed, ctxDone, closeReturned, initErr, tasks, defaultClient>>
taskVars == <<bg, ticker, tick>>
backendVars == <<source, snapshot, refreshes>>

\* A thread outside any call, and inside one on client c.
Idle == [pc |-> "idle", c |-> 0, pkg |-> FALSE, after |-> FALSE]
In(pc, c, pkg, after) == [pc |-> pc, c |-> c, pkg |-> pkg, after |-> after]

\* What a step hands back to its caller: op is the call that returned, by the
\* thread (or "refresh", the goroutine), pkg whether a package-level function
\* made the call, after whether a Close of the client had returned when the
\* call began, closed what the call read from c.isClosed, found and stored
\* what GetData gave, data0 and data1 the caller's destination before and
\* after.
Outcome(op, by, c, pkg, after, closed, name, dflt, found, stored, val, err, data0, data1) ==
    [op |-> op, by |-> by, c |-> c, pkg |-> pkg, after |-> after, closed |-> closed,
     name |-> name, dflt |-> dflt, found |-> found, stored |-> stored, val |-> val,
     err |-> err, data0 |-> data0, data1 |-> data1]
Plain(op, by, c, err) ==
    Outcome(op, by, c, FALSE, FALSE, FALSE, "", Nil, FALSE, Nil, Nil, err, NoDest,
            NoDest)
NoLast == Plain("none", "none", 0, NoErr)

\* The counter of Refresh invocations after one more.
Counted(n) == IF n < MaxRefresh THEN n + 1 ELSE n

Init ==
    /\ defaultClient = 0
    /\ phase = [c \in Clients |-> "none"]
    /\ isClosed = [c \in Clients |-> FALSE]
    /\ ctxDone = [c \in Clients |-> FALSE]
    /\ bg = [c \in Clients |-> "none"]
    /\ ticker = [c \in Clients |-> "none"]
    /\ tick = [c \in Clients |-> FALSE]
    /\ source = [c \in Clients |-> "d1"]
    /\ snapshot = [c \in Clients |-> NoDoc]
    /\ refreshes = [c \in Clients |-> 0]
    /\ tasks = [c \in Clients |-> 0]
    /\ initErr = [c \in Clients |-> "pending"]
    /\ closeReturned = [c \in Clients |-> FALSE]
    /\ th = [t \in Threads |-> Idle]
    /\ last = NoLast
    /\ panicked = FALSE

\* ------------------------------------------------------------------ NewClient

\* NewClientCall as it would be if the goroutine were started before the
\* first Refresh.
NewClientCallSpawningFirst(t, c) ==
    /\ ~panicked
    /\ th[t] = Idle
    /\ phase[c] = "none"
    /\ \A o \in Clients : o < c => phase[o] # "none"
    /\ phase' = [phase EXCEPT ![c] = "init"]
    /\ bg' = [bg EXCEPT ![c] = "start"]
    /\ tasks' = [tasks EXCEPT ![c] = @ + 1]
    /\ refreshes' = [refreshes EXCEPT ![c] = Counted(@)]
    /\ th' = [th EXCEPT ![t] = In("NewClient", c, FALSE, FALSE)]
    /\ last' = NoLast
    /\ UNCHANGED <<defaultClient, isClosed, ctxDone, closeReturned, initErr, ticker,
                   tick, source, snapshot, panicked>>

\* NewClient up to its call of Repository.Refresh: the context is derived, the
\* Client built, and the first Refresh begins.  Calls take the clients in order.
NewClientCall(t, c) ==
    /\ ~panicked
    /\ th[t] = Idle
    /\ phase[c] = "none"
    /\ \A o \in Clients : o < c => phase[o] # "none"
    /\ phase' = [phase EXCEPT ![c] = "init"]
    /\ refreshes' = [refreshes EXCEPT ![c] = Counted(@)]
    /\ th' = [th EXCEPT ![t] = In("NewClient", c, FALSE, FALSE)]
    /\ last' = NoLast
    /\ UNCHANGED <<defaultClient, isClosed, ctxDone, closeReturned, initErr, tasks,
                   taskVars, source, snapshot, panicked>>

\* NewClientReturn as it would be if the error of the first Refresh were
\* only logged.
NewClientReturnIgnoringError(t, c, ok) ==
    /\ ~panicked
    /\ th[t] = In("NewClient", c, FALSE, FALSE)
    /\ snapshot' = [snapshot EXCEPT ![c] = RefreshedSnapshot(@, source[c], ok)]
    /\ initErr' = [initErr EXCEPT ![c] = RefreshError(ok)]
    /\ phase' = [phase EXCEPT ![c] = "live"]
    /\ bg' = [bg EXCEPT ![c] = "start"]
    /\ tasks' = [tasks EXCEPT ![c] = @ + 1]
    /\ defaultClient' = c
    /\ th' = [th EXCEPT ![t] = Idle]
    /\ last' = Plain("NewClient", t, c, NoErr)
    /\ UNCHANGED <<isClosed, ctxDone, closeReturned, ticker, tick, source,
                   refreshes, panicked>>

\* NewClientReturn as it would be if defaultClient were set only while it is
\* nil, so that the first Client stayed the singleton.
NewClientReturnKeepingFirst(t, c, ok) ==
    /\ ~panicked
    /\ th[t] = In("NewClient", c, FALSE, FALSE)
    /\ snapshot' = [snapshot EXCEPT ![c] = RefreshedSnapshot(@, source[c], ok)]
    /\ initErr' = [initErr EXCEPT ![c] = RefreshError(ok)]
    /\ IF RefreshError(ok) # NoErr
       THEN /\ phase' = [phase EXCEPT ![c] = "failed"]
            /\ UNCHANGED <<bg, tasks, defaultClient>>
       ELSE /\ phase' = [phase EXCEPT ![c] = "live"]
            /\ bg' = [bg EXCEPT ![c] = "start"]
            /\ tasks' = [tasks EXCEPT ![c] = @ + 1]
            /\ defaultClient' = IF defaultClient = 0 THEN c ELSE defaultClient
    /\ th' = [th EXCEPT ![t] = Idle]
    /\ last' = Plain("NewClient", t, c, RefreshError(ok))
    /\ UNCHANGED <<isClosed, ctxDone, closeReturned, ticker, tick, source,
                   refreshes, panicked>>

\* The first Refresh returns and NewClient finishes: on an error it returns
\* nil; otherwise it starts the goroutine, sets defaultClient and returns the
\* Client.
NewClientReturn(t, c, ok) ==
    /\ ~panicked
    /\ th[t] = In("NewClient", c, FALSE, FALSE)
    /\ snapshot' = [snapshot EXCEPT ![c] = RefreshedSnapshot(@, source[c], ok)]
    /\ initErr' = [initErr EXCEPT ![c] = RefreshError(ok)]
    /\ IF RefreshError(ok) # NoErr
       THEN /\ phase' = [phase EXCEPT ![c] = "failed"]
            /\ UNCHANGED <<bg, tasks, defaultClient>>
       ELSE /\ phase' = [phase EXCEPT ![c] = "live"]
            /\ bg' = [bg EXCEPT ![c] = "start"]
            /\ tasks' = [tasks EXCEPT ![c] = @ + 1]
            /\ defaultClient' = c
    /\ th' = [th EXCEPT ![t] = Idle]
    /\ last' = Plain("NewClient", t, c, RefreshError(ok))
    /\ UNCHANGED <<isClosed, ctxDone, closeReturned, ticker, tick, source,
                   refreshes, panicked>>

\* The context passed to NewClient is cancelled by its owner: the client's
\* context, derived from it, is cancelled with it.
CancelParent(c) ==
    /\ ~panicked
    /\ phase[c] \in {"init", "live"}
    /\ ~ctxDone[c]
    /\ ctxDone' = [ctxDone EXCEPT ![c] = TRUE]
    /\ last' = NoLast
    /\ UNCHANGED <<defaultClient, phase, isClosed, closeReturned, initErr, tasks,
                   taskVars, backendVars, th, panicked>>

\* ------------------------------------------------------------------ refresh

\* The goroutine begins: it creates its ticker and reaches the select.  (The
\* refresh interval is positive: time.NewTicker accepts no other.)
RefreshStart(c) ==
    /\ ~panicked
    /\ bg[c] = "start"
    /\ ticker' = [ticker EXCEPT ![c] = "running"]
    /\ bg' = [bg EXCEPT ![c] = "select"]
    /\ last' = NoLast
    /\ UNCHANGED <<clientVars, tick, backendVars, th, panicked>>

\* The ticker fires: ticker.C, a channel of one slot, takes a tick if it is
\* empty (a tick that finds it full is dropped).
Tick(c) ==
    /\ ~panicked
    /\ ticker[c] = "running"
    /\ ~tick[c]
    /\ tick' = [tick EXCEPT ![c] = TRUE]
    /\ last' = NoLast
    /\ UNCHANGED <<clientVars, bg, ticker, backendVars, th, panicked>>

\* RefreshTick as it would be if every tick started a Refresh of its own (go
\* client.Repository.Refresh()), whether or not the last one has returned.
RefreshTickSpawning(c) ==
    /\ ~panicked
    /\ bg[c] \in {"select", "Refresh"}
    /\ tick[c]
    /\ tick' = [tick EXCEPT ![c] = FALSE]
    /\ bg' = [bg EXCEPT ![c] = "Refresh"]
    /\ refreshes' = [refreshes EXCEPT ![c] = Counted(@)]
    /\ last' = NoLast
    /\ UNCHANGED <<clientVars, ticker, source, snapshot, th, panicked>>

\* The select takes the tick and the goroutine calls Repository.Refresh.  Go
\* chooses among the ready cases of a select at random, so a cancelled
\* context does not keep this case from being taken.
RefreshTick(c) ==
    /\ ~panicked
    /\ bg[c] = "select"
    /\ tick[c]
    /\ tick' = [tick EXCEPT ![c] = FALSE]
    /\ bg' = [bg EXCEPT ![c] = "Refresh"]
    /\ refreshes' = [refreshes EXCEPT ![c] = Counted(@)]
    /\ last' = NoLast
    /\ UNCHANGED <<clientVars, ticker, source, snapshot, th, panicked>>

\* RefreshReturn as it would be if the goroutine returned after a Refresh.
RefreshReturnLeavingLoop(c, ok) ==
    /\ ~panicked
    /\ bg[c] = "Refresh"
    /\ snapshot' = [snapshot EXCEPT ![c] = RefreshedSnapshot(@, source[c], ok)]
    /\ bg' = [bg EXCEPT ![c] = "exited"]
    /\ last' = Plain("Refresh", "refresh", c, RefreshError(ok))
    /\ UNCHANGED <<clientVars, ticker, tick, source, refreshes, th, panicked>>

\* RefreshReturn as it would be if a failed Refresh ended the loop.
RefreshReturnStoppingOnError(c, ok) ==
    /\ ~panicked
    /\ bg[c] = "Refresh"
    /\ snapshot' = [snapshot EXCEPT ![c] = RefreshedSnapshot(@, source[c], ok)]
    /\ bg' = [bg EXCEPT ![c] = IF RefreshError(ok) # NoErr THEN "exited" ELSE "select"]
    /\ last' = Plain("Refresh", "refresh", c, RefreshError(ok))
    /\ UNCHANGED <<clientVars, ticker, tick, source, refreshes, th, panicked>>

\* The goroutine's Refresh returns; an error is logged and the loop goes on.
RefreshReturn(c, ok) ==
    /\ ~panicked
    /\ bg[c] = "Refresh"
    /\ snapshot' = [snapshot EXCEPT ![c] = RefreshedSnapshot(@, source[c], ok)]
    /\ bg' = [bg EXCEPT ![c] = "select"]
    /\ last' = Plain("Refresh", "refresh", c, RefreshError(ok))
    /\ UNCHANGED <<clientVars, ticker, tick, source, refreshes, th, panicked>>

\* RefreshDone as it would be if the ctx.Done() case only left the select (a
\* break in place of the return), so that the loop went round again.
RefreshDoneBreakingSelect(c) ==
    /\ ~panicked
    /\ bg[c] = "select"
    /\ ctxDone[c]
    /\ bg' = [bg EXCEPT ![c] = "select"]
    /\ last' = NoLast
    /\ UNCHANGED <<clientVars, ticker, tick, backendVars, th, panicked>>

\* The select takes ctx.Done() and the goroutine returns.
RefreshDone(c) ==
    /\ ~panicked
    /\ bg[c] = "select"
    /\ ctxDone[c]
    /\ bg' = [bg EXCEPT ![c] = "exited"]
    /\ last' = NoLast
    /\ UNCHANGED <<clientVars, ticker, tick, backendVars, th, panicked>>

\* The backend's source is edited.
SourceChange(c, d) ==
    /\ ~panicked
    /\ source[c] # d
    /\ source' = [source EXCEPT ![c] = d]
    /\ last' = NoLast
    /\ UNCHANGED <<clientVars, taskVars, snapshot, refreshes, th, panicked>>

\* ------------------------------------------------------------------ Close

\* CloseCancel as it would be if Close set the flag first and cancelled the
\* context after it.
CloseCancelSettingFlagFirst(t, c) ==
    /\ ~panicked
    /\ th[t] = Idle
    /\ phase[c] = "live"
    /\ isClosed' = [isClosed EXCEPT ![c] = TRUE]
    /\ th' = [th EXCEPT ![t] = In("Close", c, FALSE, closeReturned[c])]
    /\ last' = NoLast
    /\ UNCHANGED <<defaultClient, phase, ctxDone, closeReturned, initErr, tasks,
                   taskVars, backendVars, panicked>>

\* Close, first statement: c.cancel().
CloseCancel(t, c) ==
    /\ ~panicked
    /\ th[t] = Idle
    /\ phase[c] = "live"
    /\ ctxDone' = [ctxDone EXCEPT ![c] = TRUE]
    /\ th' = [th EXCEPT ![t] = In("Close", c, FALSE, closeReturned[c])]
    /\ last' = NoLast
    /\ UNCHANGED <<defaultClient, phase, isClosed, closeReturned, initErr, tasks,
                   taskVars, backendVars, panicked>>

\* CloseFlag as it would be if Close flipped the flag.
CloseFlagToggling(t, c) ==
    /\ ~panicked
    /\ th[t].pc = "Close"
    /\ th[t].c = c
    /\ isClosed' = [isClosed EXCEPT ![c] = ~@]
    /\ closeReturned' = [closeReturned EXCEPT ![c] = TRUE]
    /\ th' = [th EXCEPT ![t] = Idle]
    /\ last' = Outcome("Close", t, c, FALSE, th[t].after, FALSE, "", Nil, FALSE, Nil,
                       Nil, NoErr, NoDest, NoDest)
    /\ UNCHANGED <<defaultClient, phase, ctxDone, initErr, tasks, taskVars,
                   backendVars, panicked>>

\* Close, second statement: c.isClosed = true; Close returns.
CloseFlag(t, c) ==
    /\ ~panicked
    /\ th[t].pc = "Close"
    /\ th[t].c = c
    /\ isClosed' = [isClosed EXCEPT ![c] = TRUE]
    /\ closeReturned' = [closeReturned EXCEPT ![c] = TRUE]
    /\ th' = [th EXCEPT ![t] = Idle]
    /\ last' = Outcome("Close", t, c, FALSE, th[t].after, FALSE, "", Nil, FALSE, Nil, Nil,
                       NoErr, NoDest, NoDest)
    /\ UNCHANGED <<defaultClient, phase, ctxDone, initErr, tasks, taskVars,
                   backendVars, panicked>>

\* ------------------------------------------------------------------ accessor calls

\* The client a call is made on: c itself for a method call, defaultClient for
\* a package-level function.
Receiver(c, pkg) == IF pkg THEN defaultClient = c ELSE phase[c] = "live"

\* An accessor is called and reads c.isClosed as true: it returns at once.
GetClosed(t, c, pkg, op, name, data) ==
    /\ ~panicked
    /\ th[t] = Idle
    /\ Receiver(c, pkg)
    /\ isClosed[c]
    /\ LET r == Call(op, isClosed[c], DocOf(snapshot[c]), name, data, DefaultOf(op)) IN
       last' = Outcome(op, t, c, pkg, closeReturned[c], TRUE, name, DefaultOf(op),
                       FALSE, Nil, r.val, r.err, data, r.data)
    /\ UNCHANGED <<clientVars, taskVars, backendVars, th, panicked>>

\* An accessor is called and reads c.isClosed as false: it goes on to the
\* lookup.  (Nothing up to here depends on the call's arguments, which the
\* model draws when the call returns.)
GetOpen(t, c, pkg) ==
    /\ ~panicked
    /\ th[t] = Idle
    /\ Receiver(c, pkg)
    /\ ~isClosed[c]
    /\ th' = [th EXCEPT ![t] = In("Get", c, pkg, closeReturned[c])]
    /\ last' = NoLast
    /\ UNCHANGED <<clientVars, taskVars, backendVars, panicked>>

\* The accessor looks the name up in the backend, converts and returns.
GetReturn(t, op, name, data) ==
    /\ ~panicked
    /\ th[t].pc = "Get"
    /\ LET c == th[t].c
           got == GetData(DocOf(snapshot[c]), name)
           r == Call(op, FALSE, DocOf(snapshot[c]), name, data, DefaultOf(op))
       IN last' = Outcome(op, t, c, th[t].pkg, th[t].after, FALSE, name,
                          DefaultOf(op), got.ok, got.config, r.val, r.err, data,
                          r.data)
    /\ th' = [th EXCEPT ![t] = Idle]
    /\ UNCHANGED <<clientVars, taskVars, backendVars, panicked>>

\* GetNil as it would be if the package-level functions checked defaultClient
\* and returned the default with an error.
GetNilReturningError(t, op) ==
    /\ ~panicked
    /\ th[t] = Idle
    /\ defaultClient = 0
    /\ last' = Outcome(op, t, 0, TRUE, FALSE, FALSE, "", DefaultOf(op), FALSE, Nil,
                       DefaultOf(op), ErrClosed, NoDest, NoDest)
    /\ UNCHANGED <<clientVars, taskVars, backendVars, th, panicked>>

\* A package-level function is called while defaultClient is nil: the method
\* reads isClosed through the nil pointer and the process panics.
GetNil(t, op) ==
    /\ ~panicked
    /\ th[t] = Idle
    /\ defaultClient = 0
    /\ panicked' = TRUE
    /\ last' = Outcome(op, t, 0, TRUE, FALSE, FALSE, "", Nil, FALSE, Nil, Nil, NilDeref,
                       NoDest, NoDest)
    /\ UNCHANGED <<clientVars, taskVars, backendVars, th>>

\* ------------------------------------------------------------------ specification

\* One step of the program where the threads T call it, NewClient is called
\* for the clients C, and the accessors O are called for the names K.
Program(T, C, O, K) ==
    \/ \E t \in T, c \in C : NewClientCall(t, c)
    \/ \E t \in T, c \in C, ok \in BOOLEAN : NewClientReturn(t, c, ok)
    \/ \E c \in C : RefreshStart(c)
    \/ \E c \in C : Tick(c)
    \/ \E c \in C : RefreshTick(c)
    \/ \E c \in C, ok \in BOOLEAN : RefreshReturn(c, ok)
    \/ \E c \in C : RefreshDone(c)
    \/ \E t \in T, c \in C : CloseCancel(t, c)
    \/ \E t \in T, c \in C : CloseFlag(t, c)
    \/ \E t \in T, c \in C, pkg \in BOOLEAN, op \in O, name \in K :
          \E data \in DestsOf(op) : GetClosed(t, c, pkg, op, name, data)
    \/ \E t \in T, c \in C, pkg \in BOOLEAN : GetOpen(t, c, pkg)
    \/ \E t \in T, op \in O, name \in K :
          \E data \in DestsOf(op) : GetReturn(t, op, name, data)
    \/ \E t \in T, op \in O : GetNil(t, op)

\* What the program's surroundings do to the clients C: a source is edited,
\* or the context a client was constructed with is cancelled.
Edits(C) == \E c \in C, d \in DocIds : SourceChange(c, d)
Cancels(C) == \E c \in C : CancelParent(c)

\* The first client alone, and the one accessor the lifecycle is watched with.
First == {c \in Clients : \A o \in Clients : c <= o}
Probe == {"GetConfigString"}

\* The client lifecycle: one caller constructs, reads and closes every client
\* while each refresh goroutine runs beside it; the surroundings do nothing.
Next == Program({"t1"}, Clients, Probe, {"name"})
Spec == Init /\ [][Next]_vars

\* Two callers of one client, whose calls interleave statement by statement,
\* while its source is edited and its context cancelled.
RaceNext == Program(Threads, First, Probe, {"name"}) \/ Edits(First) \/ Cancels(First)
RaceSpec == Init /\ [][RaceNext]_vars

\* Every accessor, for every name, on one client whose source is edited and
\* whose context is cancelled.
AccessNext == Program({"t1"}, First, Ops, Keys) \/ Edits(First) \/ Cancels(First)
AccessSpec == Init /\ [][AccessNext]_vars

\* One caller of one client in the same surroundings, where every goroutine
\* that can take a step eventually takes one, the ticker keeps firing, and a
\* Refresh that is tried again and again eventually succeeds.
FairNext == Program({"t1"}, First, Probe, {"name"}) \/ Edits(First) \/ Cancels(First)
Fairness ==
    \A c \in First :
        /\ WF_vars(RefreshStart(c))
        /\ WF_vars(Tick(c))
        /\ WF_vars(RefreshTick(c))
        /\ WF_vars(RefreshDone(c))
        /\ WF_vars(\E ok \in BOOLEAN : RefreshReturn(c, ok))
        /\ SF_vars(RefreshReturn(c, TRUE))
FairSpec == Init /\ [][FairNext]_vars /\ Fairness

\* The same, where the select also treats its cases fairly: Go chooses among
\* the ready cases at random, so a case that is ready again and again is
\* eventually the one taken.
SelectFairness == \A c \in First : SF_vars(RefreshDone(c)) /\ SF_vars(RefreshTick(c))
StopSpec == Init /\ [][FairNext]_vars /\ Fairness /\ SelectFairness

\* ------------------------------------------------------------------ claims

\* What an accessor call delivered to its caller besides the error: the value
\* it returned, or for GetConfig, which returns none, what the caller's
\* destination holds after the call.
Delivered(o) == IF o.op = "GetConfig" THEN o.data1.v ELSE o.val

\* An accessor call that returned (and did not panic).
Returned(o) == o.op \in Ops /\ o.c # 0

\* C1: an accessor call that began after Close had returned on its client
\* returns the caller's default and the closed-client error, whatever the
\* snapshot holds for the name.
C1_AfterCloseDefaultAndClosedError ==
    (Returned(last) /\ last.after) =>
        (last.err = ErrClosed /\ Delivered(last) = last.dflt)

\* C1, for the accessors that return a value (all but GetConfig): what the
\* code does keep of the claim.
C1_ValueAccessorsAfterClose ==
    (Returned(last) /\ last.after /\ last.op # "GetConfig") =>
        (last.err = ErrClosed /\ last.val = last.dflt)

\* C2: NewClient returns a Client exactly when the first Refresh returned no
\* error.  After a failed first Refresh no Client exists, no goroutine was
\* started and Refresh was invoked on the backend once; after a successful
\* one exactly one goroutine was started, whatever later Refreshes return.
C2_ClientIffFirstRefreshSucceeds ==
    \A c \in Clients :
        /\ phase[c] = "live" <=> initErr[c] = NoErr
        /\ phase[c] = "failed" <=> initErr[c] = ErrRefresh
        /\ phase[c] = "failed" =>
              /\ bg[c] = "none" /\ ticker[c] = "none" /\ tasks[c] = 0
              /\ refreshes[c] = 1
              /\ defaultClient # c
        /\ phase[c] = "live" => tasks[c] = 1 /\ bg[c] # "none"
        /\ (last.op = "NewClient" /\ last.c = c) =>
              (last.err = NoErr <=> phase[c] = "live")

\* C2's case: the first NewClient failed, the second succeeded, and a later
\* Refresh of the second client's goroutine has just returned an error.
C2_Witness ==
    /\ \E c \in Clients : phase[c] = "failed"
    /\ \E c \in Clients :
          /\ phase[c] = "live" /\ tasks[c] = 1
          /\ last = Plain("Refresh", "refresh", c, ErrRefresh)

\* C3: one Refresh has returned without error before NewClient returns the
\* Client, before the goroutine is started, and before any accessor reads the
\* backend; and the goroutine calls Refresh only by taking a tick.
C3_FirstRefreshComesFirst ==
    /\ [](\A c \in Clients :
            /\ (phase[c] = "live" \/ bg[c] # "none" \/ tasks[c] # 0 \/ defaultClient = c)
                  => (initErr[c] = NoErr /\ snapshot[c] # NoDoc /\ refreshes[c] >= 1)
            /\ (\E t \in Threads : th[t].pc = "Get" /\ th[t].c = c) => initErr[c] = NoErr
            /\ (Returned(last) /\ last.c = c) => initErr[c] = NoErr
            /\ bg[c] = "start" => refreshes[c] = 1)
    /\ [][\A c \in Clients :
            (bg[c] # "Refresh" /\ bg'[c] = "Refresh") =>
                (bg[c] = "select" /\ tick[c] /\ ~tick'[c] /\ ticker[c] = "running")]_vars

\* C3's case: the goroutine is inside its first Refresh, the backend's second.
C3_Witness ==
    \E c \in Clients : bg[c] = "Refresh" /\ refreshes[c] = 2 /\ initErr[c] = NoErr

\* C4: once Close has returned on a Client, Refresh is invoked on its backend
\* no more: the count of invocations no longer grows.
C4_NoRefreshAfterClose ==
    [][\A c \in Clients : closeReturned[c] => refreshes'[c] = refreshes[c]]_vars

C6_FailedRefreshIsNotFatal ==
    /\ [][\A c \in First :
            (bg[c] = "Refresh" /\ last'.op = "Refresh" /\ last'.err # NoErr) =>
                /\ bg'[c] = "select" /\ ticker'[c] = "running"
                /\ isClosed'[c] = isClosed[c] /\ ctxDone'[c] = ctxDone[c]
                /\ snapshot'[c] = snapshot[c]]_vars
    /\ [](\A c \in First :
            /\ phase[c] = "live" => snapshot[c] \in DocIds
            /\ (last.op = "Refresh" /\ last.c = c) => bg[c] = "select"
            /\ (last.op = "GetConfigString" /\ last.c = c /\ ~last.closed
                /\ last.name = "name")
                  => (last.err = NoErr /\ last.val = last.stored
                      /\ last.stored = DocOf(snapshot[c])["name"]))

\* C6's case: the source was edited, the goroutine's Refresh has just failed,
\* and the snapshot is still the document of the last successful Refresh.
C6_Witness ==
    \E c \in First :
        /\ last = Plain("Refresh", "refresh", c, ErrRefresh)
        /\ refreshes[c] >= 2 /\ snapshot[c] = "d1" /\ source[c] = "d2"
        /\ ~isClosed[c] /\ bg[c] = "select"

\* C7: on an open Client, an accessor asked for a name the snapshot does not
\* hold returns the caller's default and the not-found error.
C7_AbsentNameDefaultAndNotFound ==
    (Returned(last) /\ ~last.closed /\ ~last.found) =>
        (last.err = ErrNotFound /\ Delivered(last) = last.dflt)

\* C7, for the accessors that return a value (all but GetConfig): what the
\* code does keep of the claim.
C7_ValueAccessorsAbsentName ==
    (Returned(last) /\ ~last.closed /\ ~last.found /\ last.op # "GetConfig") =>
        (last.err = ErrNotFound /\ last.val = last.dflt)

\* The dynamic type each scalar accessor asks for, and its mismatch error.
Wanted(op) ==
    CASE op = "GetConfigString" -> "string"
      [] op = "GetConfigInt" -> "int"
      [] OTHER -> "float64"
Mismatch(op) == IF op = "GetConfigString" THEN ErrNotString ELSE ErrNotInt
Scalars == {"GetConfigString", "GetConfigInt", "GetConfigFloat"}

\* C8: on an open Client that holds the name, a scalar accessor returns the
\* stored value and no error exactly when the value's dynamic type is the
\* one it asks for; otherwise it returns the default and a type-mismatch
\* error, never a converted or zero value.
C8_ScalarExactType ==
    (Returned(last) /\ last.op \in Scalars /\ ~last.closed /\ last.found) =>
        IF last.stored.t = Wanted(last.op)
        THEN last.val = last.stored /\ last.err = NoErr
        ELSE last.val = last.dflt /\ last.err = Mismatch(last.op)

\* C8's case: GetConfigInt was asked for a float with no fraction and
\* returned the default with an error.
C8_Witness ==
    /\ last.op = "GetConfigInt" /\ ~last.closed /\ last.found
    /\ last.stored = VFloat(3, 0)
    /\ last.val = VInt(9) /\ last.err = ErrNotInt

\* Whether every element of a sequence is a string.
AllStrings(elems) == \A i \in 1..Len(elems) : elems[i].t = "string"

\* C9: on an open Client that holds the name, GetConfigArrayOfStrings returns
\* the elements of a stored sequence in order with no error if each is a
\* string; if any is not, or the stored value is no sequence, it returns
\* exactly the default with an error.
C9_ArrayAllOrNothing ==
    (Returned(last) /\ last.op = "GetConfigArrayOfStrings" /\ ~last.closed
     /\ last.found) =>
        IF last.stored.t = "[]interface{}" /\ AllStrings(last.stored.elems)
        THEN last.val = VStrings(last.stored.elems) /\ last.err = NoErr
        ELSE last.val = last.dflt /\ last.err = ErrNotArray

\* C9's case: the stored sequence is two strings and then an integer, and the
\* call returned the default.
C9_Witness ==
    /\ last.op = "GetConfigArrayOfStrings" /\ ~last.closed
    /\ last.stored = VList(<<VStr("a"), VStr("b"), VInt(3)>>)
    /\ last.val = VStrings(<<VStr("x")>>) /\ last.err = ErrNotArray

\* A step of a Close call of thread t on client c.
CloseStep(t, c) ==
    \/ th[t].pc = "idle" /\ th'[t].pc = "Close" /\ th'[t].c = c
    \/ th[t].pc = "Close" /\ th[t].c = c /\ th'[t].pc = "idle"

\* C10: once a Close has returned on a Client its context is cancelled and
\* its flag is set, and they stay so; a step of any further Close, whether it
\* began before or after the first returned, changes nothing of the Client,
\* starts no goroutine and returns no error.
C10_CloseIdempotent ==
    /\ [](\A c \in First :
            /\ closeReturned[c] => (isClosed[c] /\ ctxDone[c] /\ tasks[c] = 1)
            /\ (last.op = "Close" /\ last.c = c) => (last.err = NoErr /\ ~panicked))
    /\ [][\A c \in First, t \in Threads :
            (closeReturned[c] /\ CloseStep(t, c)) =>
                /\ isClosed'[c] = isClosed[c] /\ ctxDone'[c] = ctxDone[c]
                /\ bg'[c] = bg[c] /\ ticker'[c] = ticker[c] /\ tasks'[c] = tasks[c]
                /\ phase'[c] = phase[c] /\ defaultClient' = defaultClient
                /\ snapshot'[c] = snapshot[c] /\ refreshes'[c] = refreshes[c]]_vars

\* C10's case: one Close has returned while another, begun before that, is
\* between its two statements, and the goroutine has exited.
C10_Witness ==
    \E c \in First, t \in Threads :
        /\ closeReturned[c] /\ bg[c] = "exited"
        /\ th[t].pc = "Close" /\ th[t].c = c /\ ~th[t].after

\* The Clients constructed so far, and the one constructed last (0 if none):
\* NewClient calls take the clients in order.
Constructed == {c \in Clients : phase[c] = "live"}
MostRecent ==
    IF Constructed = {} THEN 0
    ELSE CHOOSE c \in Constructed : \A o \in Constructed : o <= c

PackageCall ==
    \/ last'.pkg /\ last'.op \in Ops
    \/ \E t \in Threads : th'[t].pkg /\ ~th[t].pkg

\* C12: while no Client has been constructed (no NewClient call was made, or
\* every one so far failed) defaultClient is nil, and a call of a
\* package-level accessor then ends in a nil dereference: the process
\* panics, and the call hands back no value, no default and no error.
C12_PackageCallWithoutClientPanics ==
    /\ [](Constructed = {} => defaultClient = 0)
    /\ [][(Constructed = {} /\ PackageCall) =>
            /\ panicked'
            /\ last'.err = NilDeref /\ last'.val = Nil /\ last'.data1 = NoDest
            /\ \A t \in Threads : th'[t] = th[t]]_vars
    /\ []((last.op \in Ops /\ last.pkg /\ last.c = 0) =>
            (panicked /\ last.err = NilDeref))
    /\ [](panicked => (last.err = NilDeref /\ Constructed = {}))

\* C12's case: the only NewClient call so far failed, and a package-level
\* GetConfig has just been called.
C12_Witness ==
    /\ \E c \in Clients : phase[c] = "failed"
    /\ Constructed = {}
    /\ last.op = "GetConfig" /\ last.pkg /\ last.err = NilDeref /\ panicked

\* C13: once a Client's closed flag is true no accessor call on it returns
\* with no error, whether the call began before or after the flag was set.
C13_NoReadSucceedsOnceClosed ==
    (Returned(last) /\ last.err = NoErr) => ~isClosed[last.c]

\* C13, for the calls that begin once the flag is set: what the code does
\* keep of the claim.
C13_CallsBegunOnceClosedFail ==
    (Returned(last) /\ last.err = NoErr) => ~last.closed

\* C14: a Client whose closed flag is true has its context cancelled, and the
\* flag, once true, stays true under every step: a tick, a Refresh, an
\* accessor call, a Close, the NewClient of another Client.
C14_ClosedImpliesCancelledForGood ==
    /\ [](\A c \in Clients : isClosed[c] => (ctxDone[c] /\ phase[c] = "live"))
    /\ [][\A c \in Clients :
            /\ isClosed[c] => isClosed'[c]
            /\ ctxDone[c] => ctxDone'[c]]_vars

\* C14's case: a Client was closed, another was constructed after that, and
\* an accessor call on the closed one has just returned.
C14_Witness ==
    \E c \in Clients, o \in Clients :
        /\ c < o /\ isClosed[c] /\ phase[o] = "live" /\ refreshes[c] >= 2
        /\ Returned(last) /\ last.c = c /\ last.err = ErrClosed

\* C15: once a Client's context is cancelled, by Close or through the parent
\* context, its goroutine eventually returns; a Refresh in flight is left to
\* finish (the goroutine leaves it only by its return, and goes back to the
\* select); and a Close that has begun can always finish, whatever the
\* goroutine is doing, and takes no step of the goroutine's.
C15_LoopEndsAfterCancel ==
    /\ \A c \in First : (ctxDone[c] /\ phase[c] = "live") ~> (bg[c] = "exited")
    /\ [][\A c \in First :
            /\ (bg[c] = "Refresh" /\ bg'[c] # "Refresh") =>
                  (last'.op = "Refresh" /\ last'.by = "refresh" /\ bg'[c] = "select")
            /\ (\E t \in Threads : CloseStep(t, c)) =>
                  (bg'[c] = bg[c] /\ ticker'[c] = ticker[c] /\ tick'[c] = tick[c])
            /\ (bg[c] # "exited" /\ bg'[c] = "exited") =>
                  (bg[c] = "select" /\ ctxDone[c])]_vars
    /\ [](\A c \in First, t \in Threads :
            (th[t].pc = "Close" /\ th[t].c = c) => ENABLED CloseFlag(t, c))

\* C15's case: the parent context was cancelled, no Close was called, and the
\* goroutine, which had refreshed by then, has returned.
C15_Witness ==
    \E c \in First :
        /\ ctxDone[c] /\ ~closeReturned[c] /\ ~isClosed[c]
        /\ bg[c] = "exited" /\ refreshes[c] >= 2

\* C15, second case: Close has returned while a Refresh of the goroutine is
\* in flight.
C15_CloseReturnsDuringRefresh ==
    \E c \in First : closeReturned[c] /\ bg[c] = "Refresh"

\* C16: whenever a Client's goroutine has returned, the ticker it created is
\* stopped.
C16_TickerStoppedOnExit ==
    \A c \in Clients : bg[c] = "exited" => ticker[c] = "stopped"

\* C17: a Client has one refresh goroutine, which calls Refresh from its
\* select only: while a Refresh of it is outstanding no other is begun (the
\* count of invocations stands still), and a tick that fires meanwhile stays
\* in ticker.C until that Refresh has returned and the select takes it.
C17_RefreshesDoNotOverlap ==
    /\ [](\A c \in First : tasks[c] <= 1 /\ (bg[c] # "none" => tasks[c] = 1))
    /\ [][\A c \in First :
            /\ bg[c] = "Refresh" =>
                  /\ refreshes'[c] = refreshes[c]
                  /\ tick[c] => tick'[c]
                  /\ bg'[c] \in {"Refresh", "select"}
            /\ (tick[c] /\ ~tick'[c]) => (bg[c] = "select" /\ bg'[c] = "Refresh")
            /\ (bg[c] = "select" /\ bg'[c] = "Refresh") => (tick[c] /\ ~tick'[c])]_vars

\* C17's case: the ticker has fired while a Refresh of the goroutine, not its
\* first, is outstanding.
C17_Witness ==
    \E c \in First : bg[c] = "Refresh" /\ tick[c] /\ refreshes[c] >= 2

\* C18: a GetConfig call that fails because the Client is closed or the
\* snapshot does not hold the name leaves the caller's destination holding
\* what it held before the call, not the default; it returns the error and
\* changes nothing of the Client, its goroutine or its backend.
C18_FailedGetConfigLeavesDestination ==
    /\ []((Returned(last) /\ last.op = "GetConfig" /\ (last.closed \/ ~last.found)) =>
            /\ last.data1 = last.data0
            /\ last.data1.v # last.dflt
            /\ last.err = (IF last.closed THEN ErrClosed ELSE ErrNotFound)
            /\ last.val = Nil)
    /\ [][(Returned(last') /\ last'.op = "GetConfig" /\ (last'.closed \/ ~last'.found)) =>
            UNCHANGED <<clientVars, taskVars, backendVars, panicked>>]_vars

\* C18's first case: GetConfig was called on a closed Client whose snapshot
\* holds the name, with a string variable holding "old".
C18_Witness ==
    /\ Returned(last) /\ last.op = "GetConfig" /\ last.closed /\ last.after
    /\ last.name \in DOMAIN DocOf(snapshot[last.c])
    /\ last.data0 = Dest("*string", VStr("old")) /\ last.data1 = last.data0
    /\ last.err = ErrClosed

\* C18's second case: GetConfig was called on an open Client for a name its
\* snapshot does not hold, with an int variable.
C18_NotFoundCase ==
    /\ Returned(last) /\ last.op = "GetConfig" /\ ~last.closed /\ ~last.found
    /\ last.data0 = Dest("*int", VInt(1)) /\ last.data1 = last.data0
    /\ last.err = ErrNotFound

\* C19: once the context a Client was constructed with is cancelled, its
\* goroutine invokes Refresh no more, so the snapshot is refreshed no more:
\* the count of invocations no longer grows.
C19_NoRefreshAfterParentCancel ==
    [][\A c \in First :
        (phase[c] = "live" /\ ctxDone[c] /\ ~isClosed[c]
         /\ \A t \in Threads : th[t].pc # "Close")
            => refreshes'[c] = refreshes[c]]_vars

\* C19, for the rest of the claim: what the code does keep of it.  Only a
\* Close sets the closed flag, so a Client whose parent context is cancelled
\* stays open, and an accessor called on it returns the snapshot's value and
\* no error, never the closed-client error.
C19_ParentCancelDoesNotClose ==
    /\ [](\A c \in First :
            /\ isClosed[c] => closeReturned[c]
            /\ (Returned(last) /\ last.c = c /\ ~closeReturned[c]
                /\ \A t \in Threads : th[t].pc # "Close") =>
                  /\ ~last.closed /\ last.err = NoErr
                  /\ last.val = DocOf(snapshot[c])[last.name])
    /\ [][\A c \in First :
            (ctxDone'[c] /\ ~ctxDone[c]) => isClosed'[c] = isClosed[c]]_vars

\* C19's case: the parent context was cancelled, the goroutine has returned,
\* no Close was called, and an accessor has just returned a value.
C19_OpenAfterParentCancel ==
    \E c \in First :
        /\ ctxDone[c] /\ ~closeReturned[c] /\ bg[c] = "exited"
        /\ Returned(last) /\ last.c = c /\ last.err = NoErr

====
